---- MODULE Spec2Model ----
(***************************************************************************)
(* Multimodal video indexing backend: the pipeline orchestrator            *)
(* (process_video_task), the event detector, the face recognition service  *)
(* and the semantic index, as state machines over the stores they share.   *)
(*                                                                         *)
(* Reals are kept exact as scaled integers:                                *)
(*   - a time is a number of ticks of 1/SampleRate seconds;                *)
(*   - a similarity or a normalized volume is a number of hundredths;      *)
(*   - a score is a multiple of 1/ScoreOne, an importance of 1/(10*ScoreOne).*)
(* Python's None is the empty tuple, a present value x is <<x>>.            *)
(***************************************************************************)
EXTENDS Integers, Sequences, FiniteSets, TLC

VARIABLES
    pc,             \* video_id -> the stage process_video_task is about to run
    video,          \* video_id -> the uploaded file (what the collaborators see)
    stages,         \* video_id -> the stages started so far, in order
    failed,         \* video_id -> the stages of the run in which an error occurred
    audio_path,     \* video_id -> local audio_path of the run
    frame_paths,    \* video_id -> local frame_paths of the run
    features,       \* video_id -> local features of the run
    all_faces,      \* video_id -> local all_faces of the run
    face_database,  \* FaceRecognitionService.face_database (in memory)
    face_file,      \* backend/face_database.json
    collection,     \* the chroma collection "video_index", in insertion order
    events_files,   \* video_id -> backend/events/{video_id}_events.json
    writes,         \* video_id -> how many times the events file was opened for writing
    ret,            \* the last call made and what it returned
    threads         \* thread -> where it is in the face service, and its locals

vars == <<pc, video, stages, failed, audio_path, frame_paths, features, all_faces,
          face_database, face_file, collection, events_files, writes, ret, threads>>

runLocals == <<audio_path, frame_paths, features, all_faces>>
stores == <<face_database, face_file, collection, events_files, writes>>

\* ------------------------------------------------------------------ bounds

MaxFrames == 2

\* ------------------------------------------------------------- vocabulary

None == <<>>
Some(x) == <<x>>

\* "v0" was processed by an earlier session of the server, "v1" and "v2" are
\* uploaded to this one.
VideoIds == {"v0", "v1", "v2"}

Min(a, b) == IF a <= b THEN a ELSE b

RECURSIVE Concat(_)
Concat(ss) == IF ss = <<>> THEN <<>> ELSE Head(ss) \o Concat(Tail(ss))

RECURSIVE Count(_, _)
Count(s, x) == IF s = <<>> THEN 0
               ELSE (IF Head(s) = x THEN 1 ELSE 0) + Count(Tail(s), x)

Range(s) == {s[i] : i \in 1..Len(s)}

\* ---------------------------------------------------------- event detector

SampleRate == 22050
HopLength == 512
ScoreOne == 100 * SampleRate
scene_change_threshold == 30
audio_spike_threshold == 70
silence_threshold == 10

\* timestamps[i] of the pipeline: the frame index, in seconds
Seconds(i) == i * SampleRate
\* librosa.frames_to_time(i, sr, hop_length) = i * hop_length / sr
FramesToTime(i) == i * HopLength

\* Frame embeddings are unit vectors at 0, 45 or 90 degrees; np.dot of the
\* normalized vectors is the cosine of the angle between them, in hundredths.
Embeddings == {0, 45, 90}
Similarity(e1, e2) ==
    LET d == IF e1 >= e2 THEN e1 - e2 ELSE e2 - e1
    IN  CASE d = 0 -> 100
          [] d = 45 -> 71
          [] OTHER -> 0

\* SceneChangeAt, stamped with the earlier frame of the pair.
SceneChangeAtEarlier(frame_embeddings, timestamps, i) ==
    LET similarity == Similarity(frame_embeddings[i - 1], frame_embeddings[i])
    IN  IF similarity < 100 - scene_change_threshold
        THEN << [timestamp |-> timestamps[i - 1],
                 type |-> "scene_change",
                 score |-> (100 - similarity) * SampleRate,
                 description |-> <<"Scene transition detected", similarity>>] >>
        ELSE <<>>

SceneChangeAt(frame_embeddings, timestamps, i) ==
    LET similarity == Similarity(frame_embeddings[i - 1], frame_embeddings[i])
    IN  IF similarity < 100 - scene_change_threshold
        THEN << [timestamp |-> timestamps[i],
                 type |-> "scene_change",
                 score |-> (100 - similarity) * SampleRate,
                 description |-> <<"Scene transition detected", similarity>>] >>
        ELSE <<>>

detect_scene_changes(frame_embeddings, timestamps) ==
    IF Len(frame_embeddings) < 2 THEN <<>>
    ELSE Concat([k \in 1..(Len(frame_embeddings) - 1) |->
                    SceneChangeAt(frame_embeddings, timestamps, k + 1)])

\* rms / (np.max(rms) + 1e-8), in hundredths; the 1e-8 only keeps an all-zero
\* track from dividing by zero.
SeqMax(s) == IF s = <<>> THEN 0 ELSE CHOOSE m \in Range(s) : \A x \in Range(s) : x <= m

Normalize(rms) ==
    LET m == SeqMax(rms)
    IN  [i \in 1..Len(rms) |-> IF m = 0 THEN 0 ELSE (rms[i] * 100) \div m]

\* The first loop of detect_audio_events; sample i of the code is v[i + 1].
SpikeAt(v, i) ==
    IF v[i + 1] > audio_spike_threshold
       /\ (i = 0 \/ v[i] < audio_spike_threshold)
    THEN << [timestamp |-> FramesToTime(i),
             type |-> "audio_spike",
             score |-> v[i + 1] * SampleRate,
             description |-> <<"Audio spike detected", v[i + 1]>>] >>
    ELSE <<>>

AudioSpikes(v) == Concat([k \in 1..Len(v) |-> SpikeAt(v, k - 1)])

\* The second loop of detect_audio_events, from sample i on, with the loop's
\* in_silence and silence_start.
RECURSIVE SilenceFrom(_, _, _, _)
SilenceFrom(v, i, in_silence, silence_start) ==
    IF i >= Len(v) THEN <<>>
    ELSE LET volume == v[i + 1]
             time == FramesToTime(i)
         IN  IF volume < silence_threshold /\ ~in_silence
             THEN SilenceFrom(v, i + 1, TRUE, time)
             ELSE IF volume >= silence_threshold /\ in_silence
             THEN LET duration == time - silence_start
                  IN  (IF 2 * duration > SampleRate
                       THEN << [timestamp |-> silence_start,
                                type |-> "silence",
                                score |-> duration * 100,
                                description |-> <<"Silence period", duration>>] >>
                       ELSE <<>>)
                      \o SilenceFrom(v, i + 1, FALSE, silence_start)
             ELSE SilenceFrom(v, i + 1, in_silence, silence_start)

\* audio is None when audio_path names no file, else the rms envelope
detect_audio_events(audio) ==
    IF audio = None THEN <<>>
    ELSE LET v == Normalize(audio[1])
         IN  AudioSpikes(v) \o SilenceFrom(v, 0, FALSE, 0)

\* SortByKeys, with elements of equal key in the reverse of their order in s.
SortByKeysLastFirst(s, keys) ==
    LET n == Len(s)
        pos(i) == 1 + Cardinality({j \in 1..n :
                        keys[j] < keys[i] \/ (keys[j] = keys[i] /\ j > i)})
    IN  [p \in 1..n |-> s[CHOOSE i \in 1..n : pos(i) = p]]

\* list.sort and sorted are stable: s ordered by ascending keys[i], elements of
\* equal key in their order in s. keys[i] is the sort key of s[i].
SortByKeys(s, keys) ==
    LET n == Len(s)
        pos(i) == 1 + Cardinality({j \in 1..n :
                        keys[j] < keys[i] \/ (keys[j] = keys[i] /\ j < i)})
    IN  [p \in 1..n |-> s[CHOOSE i \in 1..n : pos(i) = p]]

WithImportance(event, tenths) ==
    [timestamp |-> event.timestamp,
     type |-> event.type,
     score |-> event.score,
     description |-> event.description,
     importance |-> event.score * tenths]

EntityMention(entity) ==
    [timestamp |-> entity.timestamp,
     type |-> "entity_mention",
     score |-> 7 * (ScoreOne \div 10),
     description |-> <<"Mentioned", entity.text>>,
     importance |-> 9 * ScoreOne]

\* score_events, with the audio events put before the scene changes.
score_events_audio_first(scene_changes, audio_events, entities) ==
    LET scenes == [i \in 1..Len(scene_changes) |-> WithImportance(scene_changes[i], 12)]
        audio == [i \in 1..Len(audio_events) |->
                    WithImportance(audio_events[i],
                                   IF audio_events[i].type = "audio_spike" THEN 15 ELSE 8)]
        mentions == IF entities = None THEN <<>>
                    ELSE [i \in 1..Len(entities[1]) |-> EntityMention(entities[1][i])]
        all_events == audio \o scenes \o mentions
    IN  SortByKeys(all_events, [i \in 1..Len(all_events) |-> all_events[i].timestamp])

\* entities is None when the argument is left out
score_events(scene_changes, audio_events, entities) ==
    LET scenes == [i \in 1..Len(scene_changes) |-> WithImportance(scene_changes[i], 12)]
        audio == [i \in 1..Len(audio_events) |->
                    WithImportance(audio_events[i],
                                   IF audio_events[i].type = "audio_spike" THEN 15 ELSE 8)]
        mentions == IF entities = None THEN <<>>
                    ELSE [i \in 1..Len(entities[1]) |-> EntityMention(entities[1][i])]
        all_events == scenes \o audio \o mentions
    IN  SortByKeys(all_events, [i \in 1..Len(all_events) |-> all_events[i].timestamp])

CountType(events, t) == Len(SelectSeq(events, LAMBDA e : e.type = t))

\* generate_summary, with the duration put in the description of an empty list.
generate_summary_timed(events, video_duration) ==
    IF events = <<>>
    THEN [top_moments |-> <<>>,
          event_count |-> 0,
          scene_count |-> 0,
          highlight_description |-> <<"No significant events detected", video_duration>>]
    ELSE LET \* sorted(key=importance, reverse=True): descending, and still stable
             sorted_events ==
                 SortByKeys(events, [i \in 1..Len(events) |-> 0 - events[i].importance])
             top == SubSeq(sorted_events, 1, Min(5, Len(sorted_events)))
             top_moments == [i \in 1..Len(top) |-> top[i].timestamp]
             scene_count == CountType(events, "scene_change")
             audio_spike_count == CountType(events, "audio_spike")
         IN  [top_moments |-> top_moments,
              event_count |-> Len(events),
              scene_count |-> scene_count,
              audio_spike_count |-> audio_spike_count,
              highlight_description |->
                  <<"Video contains", scene_count, audio_spike_count,
                    Min(5, Len(top_moments))>>,
              events_by_type |->
                  [scene_change |-> scene_count,
                   audio_spike |-> audio_spike_count,
                   silence |-> CountType(events, "silence")]]

generate_summary(events, video_duration) ==
    IF events = <<>>
    THEN [top_moments |-> <<>>,
          event_count |-> 0,
          scene_count |-> 0,
          highlight_description |-> <<"No significant events detected">>]
    ELSE LET \* sorted(key=importance, reverse=True): descending, and still stable
             sorted_events ==
                 SortByKeys(events, [i \in 1..Len(events) |-> 0 - events[i].importance])
             top == SubSeq(sorted_events, 1, Min(5, Len(sorted_events)))
             top_moments == [i \in 1..Len(top) |-> top[i].timestamp]
             scene_count == CountType(events, "scene_change")
             audio_spike_count == CountType(events, "audio_spike")
         IN  [top_moments |-> top_moments,
              event_count |-> Len(events),
              scene_count |-> scene_count,
              audio_spike_count |-> audio_spike_count,
              highlight_description |->
                  <<"Video contains", scene_count, audio_spike_count,
                    Min(5, Len(top_moments))>>,
              events_by_type |->
                  [scene_change |-> scene_count,
                   audio_spike |-> audio_spike_count,
                   silence |-> CountType(events, "silence")]]

\* ------------------------------------------------------ the uploaded video

\* What the collaborators find in one extracted frame: its CLIP embedding, the
\* YOLO labels, the OCR tokens and the encodings of the faces in it. A face
\* encoding is a point on a line, in tenths.
BlankFrame == [emb |-> 0, objects |-> <<>>, ocr_text |-> <<>>, faces |-> <<>>]
PersonFrame == [emb |-> 0, objects |-> <<"person">>, ocr_text |-> <<>>, faces |-> <<0>>]
OtherPersonFrame == [emb |-> 45, objects |-> <<"person">>, ocr_text |-> <<>>, faces |-> <<10>>]
SignFrame == [emb |-> 90, objects |-> <<>>, ocr_text |-> <<"Paris">>, faces |-> <<>>]

FrameKinds == {BlankFrame, PersonFrame, OtherPersonFrame, SignFrame}

FrameSeqs == UNION {[1..n -> FrameKinds] : n \in 0..MaxFrames}

\* The rms envelope of a track, as runs of equal samples.
Expand(runs) == Concat([i \in 1..Len(runs) |-> [j \in 1..runs[i].len |-> runs[i].level]])

\* A track: its rms envelope and what whisper transcribes from it (a text is
\* its tokens). SilentTrack is digital silence; SpeechTrack is a loud onset,
\* 22 hops (0.51 s) of silence, then speech at 0.7 of the peak.
SilentTrack == [rms |-> Expand(<<[level |-> 0, len |-> 2]>>), transcript |-> <<>>]
SpeechTrack ==
    [rms |-> Expand(<<[level |-> 10, len |-> 1], [level |-> 0, len |-> 22],
                      [level |-> 7, len |-> 1]>>),
     transcript |-> <<[text |-> <<"visit", "Paris">>, start |-> 0, end |-> 1]>>]

\* None: the file has no audio stream.
AudioTracks == {None, Some(SilentTrack), Some(SpeechTrack)}

Videos == [audio : AudioTracks, frames : FrameSeqs]

NoVideo == [audio |-> None, frames |-> <<>>]

\* -------------------------------------------------------- feature extractor

NoFeatures == [transcript |-> <<>>, objects |-> <<>>, text |-> <<>>]

FrameObjects(frames, i) ==
    IF frames[i].objects # <<>> \/ frames[i].ocr_text # <<>>
    THEN << [frame_index |-> i - 1,
             timestamp |-> i - 1,
             objects |-> frames[i].objects,
             ocr_text |-> frames[i].ocr_text] >>
    ELSE <<>>

\* audio is the track when audio_path names an existing file, else None. Every
\* path of frame_paths names an existing file.
extract_features(audio, frames) ==
    LET transcript == IF audio # None THEN audio[1].transcript ELSE <<>>
        objects == Concat([i \in 1..Len(frames) |-> FrameObjects(frames, i)])
        base == [transcript |-> transcript, objects |-> objects, text |-> <<>>]
    IN  IF frames # <<>>
        THEN [transcript |-> transcript, objects |-> objects, text |-> <<>>,
              frame_embeddings |-> [i \in 1..Len(frames) |-> frames[i].emb]]
        ELSE base

\* -------------------------------------------------- face recognition service

eps == 5
min_samples == 2

EmptyFaceDatabase == [faces |-> <<>>, people |-> <<>>]

\* Face, with a face_id that leaves the timestamp out.
FaceUntimed(video_id, timestamp, i, encoding) ==
    [face_id |-> <<video_id, 0, i>>,
     video_id |-> video_id,
     timestamp |-> timestamp,
     encoding |-> encoding,
     person_name |-> None,
     cluster_id |-> None]

\* One Face record; the bounding box ("location") is carried nowhere else and
\* is left out. face_id is f"{video_id}_{timestamp}_{i}".
Face(video_id, timestamp, i, encoding) ==
    [face_id |-> <<video_id, timestamp, i>>,
     video_id |-> video_id,
     timestamp |-> timestamp,
     encoding |-> encoding,
     person_name |-> None,
     cluster_id |-> None]

\* encodings: what face_recognition finds in the image, in order
detect_and_encode_faces(encodings, video_id, timestamp) ==
    [k \in 1..Len(encodings) |-> Face(video_id, timestamp, k - 1, encodings[k])]

add_faces_to_database(db, faces) ==
    [db EXCEPT !.faces = @ \o faces]

\* sklearn's DBSCAN(eps, min_samples, metric='euclidean').fit(points).labels_
Distance(a, b) == IF a >= b THEN a - b ELSE b - a
Neighbors(points, i) == {j \in 1..Len(points) : Distance(points[i], points[j]) <= eps}
IsCore(points, i) == Cardinality(Neighbors(points, i)) >= min_samples

RECURSIVE Reach(_, _)
Reach(points, S) ==
    LET T == S \cup UNION {Neighbors(points, j) : j \in {k \in S : IsCore(points, k)}}
    IN  IF T = S THEN S ELSE Reach(points, T)

RECURSIVE DbscanFrom(_, _, _, _)
DbscanFrom(points, i, labels, next) ==
    IF i > Len(points) THEN labels
    ELSE IF labels[i] # -1 \/ ~IsCore(points, i)
         THEN DbscanFrom(points, i + 1, labels, next)
         ELSE LET R == Reach(points, {i})
              IN  DbscanFrom(points, i + 1,
                             [j \in 1..Len(points) |->
                                 IF j \in R /\ labels[j] = -1 THEN next ELSE labels[j]],
                             next + 1)

DBSCAN(points) == DbscanFrom(points, 1, [j \in 1..Len(points) |-> -1], 0)

VideoFaces(db, video_id) == SelectSeq(db.faces, LAMBDA f : f.video_id = video_id)

\* Relabel, without the "continue" for a noise label.
RelabelNoiseToo(face, video_faces, labels) ==
    LET hits == {idx \in 1..Len(video_faces) : video_faces[idx].face_id = face.face_id}
    IN  IF hits = {} THEN face
        ELSE [face EXCEPT !.cluster_id =
                 Some(labels[CHOOSE idx \in hits : \A o \in hits : o <= idx])]

\* Relabel, with the cluster_id of every face the call does not label reset.
RelabelClearing(face, video_faces, labels) ==
    LET hits == {idx \in 1..Len(video_faces) :
                    labels[idx] # -1 /\ video_faces[idx].face_id = face.face_id}
    IN  IF hits = {} THEN [face EXCEPT !.cluster_id = None]
        ELSE [face EXCEPT !.cluster_id =
                 Some(labels[CHOOSE idx \in hits : \A o \in hits : o <= idx])]

\* The face of db.faces at position i after the loop of cluster_faces: the last
\* clustered point with its face_id decides its cluster_id.
Relabel(face, video_faces, labels) ==
    LET hits == {idx \in 1..Len(video_faces) :
                    labels[idx] # -1 /\ video_faces[idx].face_id = face.face_id}
    IN  IF hits = {} THEN face
        ELSE [face EXCEPT !.cluster_id =
                 Some(labels[CHOOSE idx \in hits : \A o \in hits : o <= idx])]

\* cluster_faces over the faces of the video that have no cluster_id yet.
cluster_new_faces(db, video_id) ==
    LET video_faces == SelectSeq(db.faces, LAMBDA f :
                           f.video_id = video_id /\ f.cluster_id = None)
        labels == DBSCAN([i \in 1..Len(video_faces) |-> video_faces[i].encoding])
        keys == {labels[i] : i \in 1..Len(video_faces)} \ {-1}
        clustered(label) == SelectSeq([i \in 1..Len(video_faces) |->
                                          [face_id |-> video_faces[i].face_id,
                                           label |-> labels[i]]],
                                      LAMBDA x : x.label = label)
    IN  IF Len(video_faces) < 2
        THEN [db |-> db, clusters |-> <<>>, saved |-> FALSE]
        ELSE [db |-> [db EXCEPT !.faces =
                        [i \in 1..Len(db.faces) |-> Relabel(db.faces[i], video_faces, labels)]],
              clusters |-> [label \in keys |->
                              [k \in 1..Len(clustered(label)) |-> clustered(label)[k].face_id]],
              saved |-> TRUE]

\* Returns the database after the call, the returned mapping and whether the
\* database was saved.
cluster_faces(db, video_id) ==
    LET video_faces == VideoFaces(db, video_id)
        labels == DBSCAN([i \in 1..Len(video_faces) |-> video_faces[i].encoding])
        keys == {labels[i] : i \in 1..Len(video_faces)} \ {-1}
        clustered(label) == SelectSeq([i \in 1..Len(video_faces) |->
                                          [face_id |-> video_faces[i].face_id,
                                           label |-> labels[i]]],
                                      LAMBDA x : x.label = label)
    IN  IF Len(video_faces) < 2
        THEN [db |-> db, clusters |-> <<>>, saved |-> FALSE]
        ELSE [db |-> [db EXCEPT !.faces =
                        [i \in 1..Len(db.faces) |-> Relabel(db.faces[i], video_faces, labels)]],
              clusters |-> [label \in keys |->
                              [k \in 1..Len(clustered(label)) |-> clustered(label)[k].face_id]],
              saved |-> TRUE]

HasFace(db, face_id) == \E i \in 1..Len(db.faces) : db.faces[i].face_id = face_id

\* tag_face without the propagation to the cluster.
tag_face_target_only(db, face_id, person_name) ==
    IF ~HasFace(db, face_id)
    THEN [db |-> db, saved |-> FALSE]
    ELSE [db |-> [faces |-> [i \in 1..Len(db.faces) |->
                               IF db.faces[i].face_id = face_id
                               THEN [db.faces[i] EXCEPT !.person_name = Some(person_name)]
                               ELSE db.faces[i]],
                  people |-> [n \in DOMAIN db.people \cup {person_name} |->
                               IF n = person_name
                               THEN (IF n \in DOMAIN db.people THEN db.people[n] ELSE <<>>)
                                    \o <<face_id>>
                               ELSE db.people[n]]],
          saved |-> TRUE]

\* tag_face, with a registry that lists a face_id once per name.
tag_face_dedup(db, face_id, person_name) ==
    IF ~HasFace(db, face_id)
    THEN [db |-> db, saved |-> FALSE]
    ELSE LET t == CHOOSE i \in 1..Len(db.faces) :
                     /\ db.faces[i].face_id = face_id
                     /\ \A j \in 1..(i - 1) : db.faces[j].face_id # face_id
             cluster_id == db.faces[t].cluster_id
             faces == [i \in 1..Len(db.faces) |->
                          IF i = t \/ (cluster_id # None /\ db.faces[i].cluster_id = cluster_id)
                          THEN [db.faces[i] EXCEPT !.person_name = Some(person_name)]
                          ELSE db.faces[i]]
             known == DOMAIN db.people
             listed == IF person_name \in known THEN db.people[person_name] ELSE <<>>
             people == [n \in known \cup {person_name} |->
                          IF n = person_name
                          THEN (IF face_id \in Range(listed) THEN listed
                                ELSE listed \o <<face_id>>)
                          ELSE db.people[n]]
         IN  [db |-> [faces |-> faces, people |-> people], saved |-> TRUE]

\* tag_face, with the registry updated before the face is looked up.
tag_face_registering(db, face_id, person_name) ==
    LET known == DOMAIN db.people
        people == [n \in known \cup {person_name} |->
                     IF n = person_name
                     THEN (IF n \in known THEN db.people[n] ELSE <<>>) \o <<face_id>>
                     ELSE db.people[n]]
    IN  IF ~HasFace(db, face_id)
        THEN [db |-> [faces |-> db.faces, people |-> people], saved |-> TRUE]
        ELSE LET t == CHOOSE i \in 1..Len(db.faces) :
                         /\ db.faces[i].face_id = face_id
                         /\ \A j \in 1..(i - 1) : db.faces[j].face_id # face_id
                 cluster_id == db.faces[t].cluster_id
                 faces == [i \in 1..Len(db.faces) |->
                              IF i = t \/ (cluster_id # None /\ db.faces[i].cluster_id = cluster_id)
                              THEN [db.faces[i] EXCEPT !.person_name = Some(person_name)]
                              ELSE db.faces[i]]
             IN  [db |-> [faces |-> faces, people |-> people], saved |-> TRUE]

\* Returns the database after the call and whether it was saved.
tag_face(db, face_id, person_name) ==
    IF ~HasFace(db, face_id)
    THEN [db |-> db, saved |-> FALSE]
    ELSE LET t == CHOOSE i \in 1..Len(db.faces) :
                     /\ db.faces[i].face_id = face_id
                     /\ \A j \in 1..(i - 1) : db.faces[j].face_id # face_id
             cluster_id == db.faces[t].cluster_id
             faces == [i \in 1..Len(db.faces) |->
                          IF i = t \/ (cluster_id # None /\ db.faces[i].cluster_id = cluster_id)
                          THEN [db.faces[i] EXCEPT !.person_name = Some(person_name)]
                          ELSE db.faces[i]]
             known == DOMAIN db.people
             people == [n \in known \cup {person_name} |->
                          IF n = person_name
                          THEN (IF n \in known THEN db.people[n] ELSE <<>>) \o <<face_id>>
                          ELSE db.people[n]]
         IN  [db |-> [faces |-> faces, people |-> people], saved |-> TRUE]

\* search_by_person reading the people registry instead of the faces.
search_by_registry(db, person_name) ==
    LET ids == IF person_name \in DOMAIN db.people
               THEN {db.people[person_name][k] : k \in 1..Len(db.people[person_name])}
               ELSE {}
        hits == SelectSeq(db.faces, LAMBDA f : f.face_id \in ids)
    IN  [i \in 1..Len(hits) |->
            [video_id |-> hits[i].video_id,
             timestamp |-> hits[i].timestamp,
             face_id |-> hits[i].face_id]]

\* search_by_person, finding also the faces the registry lists under the name.
search_by_either(db, person_name) ==
    LET ids == IF person_name \in DOMAIN db.people
               THEN {db.people[person_name][k] : k \in 1..Len(db.people[person_name])}
               ELSE {}
        hits == SelectSeq(db.faces, LAMBDA f :
                    f.person_name = Some(person_name) \/ f.face_id \in ids)
    IN  [i \in 1..Len(hits) |->
            [video_id |-> hits[i].video_id,
             timestamp |-> hits[i].timestamp,
             face_id |-> hits[i].face_id]]

search_by_person(db, person_name) ==
    LET hits == SelectSeq(db.faces, LAMBDA f : f.person_name = Some(person_name))
    IN  [i \in 1..Len(hits) |->
            [video_id |-> hits[i].video_id,
             timestamp |-> hits[i].timestamp,
             face_id |-> hits[i].face_id]]

\* face.get("cluster_id", -1): the value stored under the key, None included;
\* -1 only for a record without the key.
GroupKey(face) == IF "cluster_id" \in DOMAIN face THEN face.cluster_id ELSE Some(-1)

\* The mapping returned: a key is None or Some(label).
get_clusters_for_video(db, video_id) ==
    LET video_faces == VideoFaces(db, video_id)
        keys == {GroupKey(video_faces[i]) : i \in 1..Len(video_faces)}
    IN  [key \in keys |-> SelectSeq(video_faces, LAMBDA f : GroupKey(f) = key)]

\* ------------------------------------------------------------------ indexer

\* collection.add of _add_embedding_to_index: the uuid of doc_id is the
\* record's position; the embedding is what Ranked orders by, at query time.
AddToIndex(coll, video_id, text, metadata) ==
    Append(coll, [id |-> <<video_id, Len(coll) + 1>>, text |-> text, metadata |-> metadata])

TranscriptRecord(video_id, segment) ==
    [text |-> segment.text,
     metadata |-> [type |-> "transcript", start |-> segment.start,
                   end |-> segment.end, video_id |-> video_id]]

FrameRecords(video_id, frame_data) ==
    (IF frame_data.objects # <<>>
     THEN << [text |-> <<"Objects:">> \o frame_data.objects,
              metadata |-> [type |-> "visual", timestamp |-> frame_data.timestamp,
                            video_id |-> video_id, objects |-> frame_data.objects]] >>
     ELSE <<>>)
    \o
    (IF frame_data.ocr_text # <<>>
     THEN << [text |-> <<"Text on screen:">> \o frame_data.ocr_text,
              metadata |-> [type |-> "ocr", timestamp |-> frame_data.timestamp,
                            video_id |-> video_id]] >>
     ELSE <<>>)

\* The records index_features adds, in the order it adds them.
IndexRecords(video_id, feats) ==
    [i \in 1..Len(feats.transcript) |-> TranscriptRecord(video_id, feats.transcript[i])]
    \o Concat([i \in 1..Len(feats.objects) |-> FrameRecords(video_id, feats.objects[i])])
    \o (IF "frame_embeddings" \in DOMAIN feats
        THEN << [text |-> <<"Video Content Summary">>,
                 metadata |-> [type |-> "video_summary", start |-> 0, end |-> 0,
                               video_id |-> video_id]] >>
        ELSE <<>>)

RECURSIVE AddAll(_, _, _)
AddAll(coll, video_id, records) ==
    IF records = <<>> THEN coll
    ELSE AddAll(AddToIndex(coll, video_id, Head(records).text, Head(records).metadata),
                video_id, Tail(records))

\* ---------------------------------------------------------- knowledge graph

\* What spaCy labels in a text (its tokens), after extract_entities' filters.
NamedEntities == {"Paris"}
RelationLabels == {"PERSON", "ORG", "GPE", "FAC"}

extract_entities(text) ==
    Concat([i \in 1..Len(text) |->
               IF text[i] \in NamedEntities
               THEN << [text |-> text[i], label |-> "GPE", start |-> i - 1, end |-> i] >>
               ELSE <<>>])

\* link_to_wikidata: the lookup's answer, or None on a timeout, an error or
\* no match (found says which).
link_to_wikidata(entity_text, found) ==
    IF found
    THEN Some([wikidata_id |-> <<"Q", entity_text>>, label |-> entity_text,
               description |-> <<"about", entity_text>>])
    ELSE None

\* up: the positions among the text's entities whose lookup answers. The
\* content of relations is read nowhere and left out.
EnrichEntity(entity, found) ==
    LET wikidata_info == link_to_wikidata(entity.text, found)
    IN  IF wikidata_info # None
        THEN IF entity.label \in RelationLabels
             THEN [text |-> entity.text, label |-> entity.label, start |-> entity.start,
                   end |-> entity.end, wikidata |-> wikidata_info[1], relations |-> <<>>]
             ELSE [text |-> entity.text, label |-> entity.label, start |-> entity.start,
                   end |-> entity.end, wikidata |-> wikidata_info[1]]
        ELSE entity

\* enrich_text, keeping only the entities whose lookup answered.
enrich_text_linked_only(text, up) ==
    LET entities == extract_entities(text)
        enriched == [k \in 1..Len(entities) |-> EnrichEntity(entities[k], k \in up)]
        linked == SelectSeq(enriched, LAMBDA e : "wikidata" \in DOMAIN e)
    IN  [text |-> text, entities |-> linked, entity_count |-> Len(linked)]

enrich_text(text, up) ==
    LET entities == extract_entities(text)
        enriched == [k \in 1..Len(entities) |-> EnrichEntity(entities[k], k \in up)]
    IN  [text |-> text, entities |-> enriched, entity_count |-> Len(enriched)]

\* ----------------------------------------------- process_video_task, by stage

StageOrder == <<"extract_audio", "extract_frames", "extract_features", "detect_faces",
                "store_faces", "index_features", "enrich_entities", "detect_events",
                "complete">>

Pos(stage) == CHOOSE i \in 1..Len(StageOrder) : StageOrder[i] = stage

\* After, with step 6 run again after it ends (a retry).
AfterRetry(stage) ==
    IF stage = "complete" THEN "done"
    ELSE IF stage = "detect_events" THEN "detect_events"
    ELSE StageOrder[Pos(stage) + 1]

\* The statement that follows a stage's in process_video_task.
After(stage) == IF stage = "complete" THEN "done" ELSE StageOrder[Pos(stage) + 1]

\* The texts step 5 enriches, in order: the transcript segments with a text,
\* then " ".join(ocr_text) of the analyzed frames with OCR text.
EnrichSources(feats) ==
    SelectSeq([i \in 1..Len(feats.transcript) |->
                  [text |-> feats.transcript[i].text, timestamp |-> feats.transcript[i].start]],
              LAMBDA s : s.text # <<>>)
    \o SelectSeq([i \in 1..Len(feats.objects) |->
                     [text |-> feats.objects[i].ocr_text, timestamp |-> feats.objects[i].timestamp]],
                 LAMBDA s : s.text # <<>>)

Stamped(entity, timestamp, video_id) ==
    [f \in DOMAIN entity \cup {"timestamp", "video_id"} |->
        CASE f = "timestamp" -> timestamp
          [] f = "video_id" -> video_id
          [] OTHER -> entity[f]]

\* all_entities of step 5. up: the lookups that answer, numbered over the run.
RECURSIVE AllEntities(_, _, _, _)
AllEntities(sources, video_id, up, offset) ==
    IF sources = <<>> THEN <<>>
    ELSE LET n == Len(extract_entities(Head(sources).text))
             enriched == enrich_text(Head(sources).text,
                                     {k \in 1..n : offset + k \in up}).entities
         IN  [k \in 1..n |-> Stamped(enriched[k], Head(sources).timestamp, video_id)]
             \o AllEntities(Tail(sources), video_id, up, offset + n)

EntityRecord(entity, video_id) ==
    LET linked == "wikidata" \in DOMAIN entity
    IN  [text |-> <<entity.text, entity.label>>
                  \o (IF linked THEN <<entity.wikidata.description>> ELSE <<>>),
         metadata |-> [type |-> "entity", entity_type |-> entity.label,
                       timestamp |-> entity.timestamp, video_id |-> video_id,
                       wikidata_id |-> IF linked THEN entity.wikidata.wikidata_id ELSE <<>>]]

EntityRecords(video_id, feats, up) ==
    LET all_entities == AllEntities(EnrichSources(feats), video_id, up, 0)
    IN  [i \in 1..Len(all_entities) |-> EntityRecord(all_entities[i], video_id)]

\* Step 3 without a failing frame; frame i has timestamp i - 1.
AllFaces(video_id, frames, bad) ==
    Concat([i \in 1..Len(frames) |->
               IF i \in bad THEN <<>>
               ELSE detect_and_encode_faces(frames[i].faces, video_id, i - 1)])

\* EventsDocument, with the entities of step 5 handed to score_events.
EventsDocumentWithEntities(video_id, feats, audio, frames) ==
    LET frame_embeddings == IF "frame_embeddings" \in DOMAIN feats
                            THEN feats.frame_embeddings ELSE <<>>
        timestamps == [i \in 1..Len(frame_embeddings) |-> Seconds(i - 1)]
        scene_changes == detect_scene_changes(frame_embeddings, timestamps)
        audio_events == detect_audio_events(IF audio = None THEN None ELSE Some(audio[1].rms))
        all_entities == AllEntities(EnrichSources(feats), video_id, {}, 0)
        all_events == score_events(scene_changes, audio_events, Some(all_entities))
        video_duration == Len(frames)
    IN  [video_id |-> video_id,
         duration |-> video_duration,
         events |-> all_events,
         summary |-> generate_summary(all_events, video_duration)]

\* The document step 6 hands to json.dump. audio: the track when audio_path
\* names an existing file, else None.
EventsDocument(video_id, feats, audio, frames) ==
    LET frame_embeddings == IF "frame_embeddings" \in DOMAIN feats
                            THEN feats.frame_embeddings ELSE <<>>
        timestamps == [i \in 1..Len(frame_embeddings) |-> Seconds(i - 1)]
        scene_changes == detect_scene_changes(frame_embeddings, timestamps)
        audio_events == detect_audio_events(IF audio = None THEN None ELSE Some(audio[1].rms))
        all_events == score_events(scene_changes, audio_events, None)
        video_duration == Len(frames)
    IN  [video_id |-> video_id,
         duration |-> video_duration,
         events |-> all_events,
         summary |-> generate_summary(all_events, video_duration)]

\* What open(events_file, 'w') followed by a failing json.dump leaves.
Truncated == [truncated |-> TRUE]

\* The run's audio as whisper and detect_audio_events see it
\* (os.path.exists(audio_path)).
AudioOf(v) == IF audio_path[v] = "" THEN None ELSE video[v].audio

Started(v, stage) == stages' = [stages EXCEPT ![v] = Append(@, stage)]
Failed(v, stage) == failed' = [failed EXCEPT ![v] = @ \cup {stage}]
Goto(v, stage) == pc' = [pc EXCEPT ![v] = stage]

\* The locals of a run that has returned or raised are gone.
DropLocals(v) ==
    /\ audio_path' = [audio_path EXCEPT ![v] = ""]
    /\ frame_paths' = [frame_paths EXCEPT ![v] = <<>>]
    /\ features' = [features EXCEPT ![v] = NoFeatures]
    /\ all_faces' = [all_faces EXCEPT ![v] = <<>>]

\* The stage returns normally.
Returned(v, stage) ==
    /\ Goto(v, After(stage))
    /\ UNCHANGED failed

\* Caught, without the except clause.
CaughtNowhere(v, stage) ==
    /\ Failed(v, stage)
    /\ Goto(v, "aborted")

\* An error inside the stage that an except clause of the stage swallows.
Caught(v, stage) ==
    /\ Failed(v, stage)
    /\ Goto(v, After(stage))

\* Raise, with the error logged and the task going on.
RaiseSwallowed(v, stage) ==
    /\ Failed(v, stage)
    /\ Goto(v, After(stage))
    /\ UNCHANGED runLocals

\* An exception that no except clause catches: it leaves process_video_task.
Raise(v, stage) ==
    /\ Failed(v, stage)
    /\ Goto(v, "aborted")
    /\ DropLocals(v)

\* upload_video: a fresh uuid4 video_id and the background task queued.
Upload(v) ==
    /\ pc[v] = "none"
    /\ \E file \in Videos : video' = [video EXCEPT ![v] = file]
    /\ Goto(v, "extract_audio")
    /\ ret' = [op |-> "upload_video", video_id |-> v]
    /\ UNCHANGED <<stages, failed, runLocals, stores, threads>>

\* video_processor.extract_audio: ffmpeg's non-zero exit is caught there and
\* "" returned; any other error (no ffmpeg to run) leaves the task.
ExtractAudio(v) ==
    /\ pc[v] = "extract_audio"
    /\ Started(v, "extract_audio")
    /\ \/ /\ video[v].audio # None
          /\ audio_path' = [audio_path EXCEPT ![v] = "mp3"]
          /\ Returned(v, "extract_audio")
          /\ UNCHANGED <<frame_paths, features, all_faces>>
       \/ /\ audio_path' = [audio_path EXCEPT ![v] = ""]
          /\ Caught(v, "extract_audio")
          /\ UNCHANGED <<frame_paths, features, all_faces>>
       \/ Raise(v, "extract_audio")
    /\ UNCHANGED <<video, stores, ret, threads>>

\* video_processor.extract_frames: one path per sampled frame, each written.
ExtractFrames(v) ==
    /\ pc[v] = "extract_frames"
    /\ Started(v, "extract_frames")
    /\ \/ /\ frame_paths' = [frame_paths EXCEPT ![v] = video[v].frames]
          /\ Returned(v, "extract_frames")
          /\ UNCHANGED <<audio_path, features, all_faces>>
       \/ Raise(v, "extract_frames")
    /\ UNCHANGED <<video, stores, ret, threads>>

ExtractFeatures(v) ==
    /\ pc[v] = "extract_features"
    /\ Started(v, "extract_features")
    /\ \/ /\ features' = [features EXCEPT ![v] = extract_features(AudioOf(v), frame_paths[v])]
          /\ Returned(v, "extract_features")
          /\ UNCHANGED <<audio_path, frame_paths, all_faces>>
       \/ Raise(v, "extract_features")
    /\ UNCHANGED <<video, stores, ret, threads>>

\* Step 3, the loop over the frames; bad: the frames whose detection fails
\* (detect_and_encode_faces returns [] for them).
DetectFaces(v) ==
    /\ pc[v] = "detect_faces"
    /\ Started(v, "detect_faces")
    /\ \E bad \in SUBSET (1..Len(frame_paths[v])) :
          /\ all_faces' = [all_faces EXCEPT ![v] = AllFaces(v, frame_paths[v], bad)]
          /\ IF bad = {} THEN Returned(v, "detect_faces") ELSE Caught(v, "detect_faces")
    /\ UNCHANGED <<video, audio_path, frame_paths, features, stores, ret, threads>>

\* "if all_faces:" add_faces_to_database, then cluster_faces, in one try.
StoreFaces(v) ==
    /\ pc[v] = "store_faces"
    /\ IF all_faces[v] = <<>>
       THEN /\ Returned(v, "store_faces")
            /\ UNCHANGED <<stages, face_database, face_file>>
       ELSE /\ Started(v, "store_faces")
            /\ LET added == add_faces_to_database(face_database, all_faces[v])
                   clustered == cluster_faces(added, v)
               IN  \/ /\ face_database' = clustered.db
                      /\ face_file' = clustered.db
                      /\ Returned(v, "store_faces")
                   \/ \* add_faces_to_database cannot open the file to save
                      /\ face_database' = added
                      /\ UNCHANGED face_file
                      /\ Caught(v, "store_faces")
                   \/ \* DBSCAN fails
                      /\ face_database' = added
                      /\ face_file' = added
                      /\ Caught(v, "store_faces")
    /\ UNCHANGED <<video, runLocals, collection, events_files, writes, ret, threads>>

\* IndexFeatures, with an error undoing what the run has stored so far: its
\* faces and the records of the failing call.
IndexFeaturesUndoing(v) ==
    /\ pc[v] = "index_features"
    /\ Started(v, "index_features")
    /\ LET records == IndexRecords(v, features[v])
           kept == [faces |-> SelectSeq(face_database.faces, LAMBDA f : f.video_id # v),
                    people |-> face_database.people]
       IN  \/ /\ collection' = AddAll(collection, v, records)
              /\ Returned(v, "index_features")
              /\ UNCHANGED <<runLocals, face_database, face_file>>
           \/ /\ collection' = collection
              /\ face_database' = kept
              /\ face_file' = kept
              /\ Raise(v, "index_features")
    /\ UNCHANGED <<video, events_files, writes, ret, threads>>

\* indexer.index_features, outside any try: an error after k records leaves
\* the task.
IndexFeatures(v) ==
    /\ pc[v] = "index_features"
    /\ Started(v, "index_features")
    /\ LET records == IndexRecords(v, features[v])
       IN  \E k \in 0..Len(records) :
              /\ collection' = AddAll(collection, v, SubSeq(records, 1, k))
              /\ IF k = Len(records)
                 THEN /\ Returned(v, "index_features")
                      /\ UNCHANGED runLocals
                 ELSE Raise(v, "index_features")
    /\ UNCHANGED <<video, face_database, face_file, events_files, writes, ret, threads>>

\* Step 5, in one try. up: the Wikidata lookups that answer; k: the entity
\* records indexed before an error, if any, ends the step.
EnrichEntities(v) ==
    /\ pc[v] = "enrich_entities"
    /\ Started(v, "enrich_entities")
    /\ \E up \in SUBSET (1..(1 + MaxFrames)), ok \in BOOLEAN :
          LET records == EntityRecords(v, features[v], up)
          IN  /\ up \subseteq 1..Len(records)
              /\ \E k \in 0..Len(records) :
                    /\ ok <=> (k = Len(records))
                    /\ collection' = AddAll(collection, v, SubSeq(records, 1, k))
              /\ IF ok THEN Returned(v, "enrich_entities") ELSE Caught(v, "enrich_entities")
    /\ UNCHANGED <<video, runLocals, face_database, face_file, events_files, writes, ret, threads>>

\* Step 6, in one try: an error before open() leaves no file, an error in
\* json.dump leaves the file open() created, cut short.
DetectEvents(v) ==
    /\ pc[v] = "detect_events"
    /\ Started(v, "detect_events")
    /\ \/ /\ UNCHANGED <<events_files, writes>>
          /\ Caught(v, "detect_events")
       \/ /\ events_files' = [events_files EXCEPT ![v] = Some(Truncated)]
          /\ writes' = [writes EXCEPT ![v] = @ + 1]
          /\ Caught(v, "detect_events")
       \/ /\ Returned(v, "detect_events")
          /\ writes' = [writes EXCEPT ![v] = @ + 1]
          /\ events_files' = [events_files EXCEPT ![v] =
                Some(EventsDocument(v, features[v], AudioOf(v), frame_paths[v]))]
    /\ UNCHANGED <<video, runLocals, face_database, face_file, collection, ret, threads>>

\* Complete, held back while the task of another video is running.
CompleteWhenAlone(v) ==
    /\ pc[v] = "complete"
    /\ \A w \in VideoIds \ {v} : pc[w] \in {"none", "done", "aborted"}
    /\ Started(v, "complete")
    /\ Returned(v, "complete")
    /\ DropLocals(v)
    /\ UNCHANGED <<video, stores, ret, threads>>

\* "Background processing complete": the task returns.
Complete(v) ==
    /\ pc[v] = "complete"
    /\ Started(v, "complete")
    /\ Returned(v, "complete")
    /\ DropLocals(v)
    /\ UNCHANGED <<video, stores, ret, threads>>

\* One step of the background task of video v.
RunNext(v) ==
    \/ ExtractAudio(v)
    \/ ExtractFrames(v)
    \/ ExtractFeatures(v)
    \/ DetectFaces(v)
    \/ StoreFaces(v)
    \/ IndexFeatures(v)
    \/ EnrichEntities(v)
    \/ DetectEvents(v)
    \/ Complete(v)

\* --------------------------------------------------- the stores at start-up

\* The stores are persistent (face_database.json, chroma_db, events/): at
\* start-up they are empty, or hold what an earlier session's run of "v0" left.
PriorVideo == [audio |-> Some(SpeechTrack), frames |-> <<PersonFrame, PersonFrame>>]

PriorFeatures == extract_features(PriorVideo.audio, PriorVideo.frames)

PriorFaceDatabase ==
    cluster_faces(add_faces_to_database(EmptyFaceDatabase,
                                        AllFaces("v0", PriorVideo.frames, {})), "v0").db

PriorCollection ==
    AddAll(AddAll(<<>>, "v0", IndexRecords("v0", PriorFeatures)),
           "v0", EntityRecords("v0", PriorFeatures, {1}))

PriorEventsFile == Some(EventsDocument("v0", PriorFeatures, PriorVideo.audio, PriorVideo.frames))

\* The video this session's pipeline specification uploads.
Runs == {"v1"}

\* The threads that call the face service: the background tasks of two
\* uploads (Starlette's thread pool) and one POST /faces/tag request.
Threads == {"run_v1", "run_v2", "tag"}
Idle == [at |-> "idle", then |-> "idle", buf |-> None, video_faces |-> <<>>, labels |-> <<>>]

Init ==
    /\ \E prior \in BOOLEAN :
          /\ pc = [v \in VideoIds |-> IF prior /\ v = "v0" THEN "done" ELSE "none"]
          /\ video = [v \in VideoIds |-> IF prior /\ v = "v0" THEN PriorVideo ELSE NoVideo]
          /\ stages = [v \in VideoIds |-> IF prior /\ v = "v0" THEN StageOrder ELSE <<>>]
          /\ face_database = IF prior THEN PriorFaceDatabase ELSE EmptyFaceDatabase
          /\ face_file = IF prior THEN PriorFaceDatabase ELSE EmptyFaceDatabase
          /\ collection = IF prior THEN PriorCollection ELSE <<>>
          /\ events_files = [v \in VideoIds |-> IF prior /\ v = "v0" THEN PriorEventsFile ELSE None]
          /\ writes = [v \in VideoIds |-> IF prior /\ v = "v0" THEN 1 ELSE 0]
    /\ failed = [v \in VideoIds |-> {}]
    /\ audio_path = [v \in VideoIds |-> ""]
    /\ frame_paths = [v \in VideoIds |-> <<>>]
    /\ features = [v \in VideoIds |-> NoFeatures]
    /\ all_faces = [v \in VideoIds |-> <<>>]
    /\ ret = [op |-> "none"]
    /\ threads = [t \in Threads |-> Idle]

Next ==
    \E v \in Runs :
        \/ Upload(v)
        \/ RunNext(v)

Spec == Init /\ [][Next]_vars

\* The background task runs until it returns or raises.
FairSpec == Spec /\ \A v \in Runs : WF_vars(RunNext(v))

\* ------------------------------------------- the face service, call by call

MaxFaces == 3
MaxTags == 2

FaceEncodings == {0, 5, 10}
Names == {"Alice", "Bob"}
NoSuchFace == <<"v9", 0, 0>>

FaceIds(db) == {db.faces[i].face_id : i \in 1..Len(db.faces)}

RECURSIVE SumLen(_, _)
SumLen(f, S) ==
    IF S = {} THEN 0
    ELSE LET x == CHOOSE y \in S : TRUE IN Len(f[x]) + SumLen(f, S \ {x})

\* How many tag_face calls found their face.
TagCount(db) == SumLen(db.people, DOMAIN db.people)

UNCHANGED_pipeline ==
    UNCHANGED <<pc, video, stages, failed, runLocals, collection, events_files, writes, threads>>

\* Steps 3 and 4a of a run whose frame i shows one face, of encoding encs[i].
AddFaces(v) ==
    /\ VideoFaces(face_database, v) = <<>>
    /\ \E n \in 1..MaxFaces : \E encs \in [1..n -> FaceEncodings] :
          LET faces == Concat([i \in 1..n |-> detect_and_encode_faces(<<encs[i]>>, v, i - 1)])
              db == add_faces_to_database(face_database, faces)
          IN  /\ face_database' = db
              /\ face_file' = db
    /\ ret' = [op |-> "add_faces_to_database", video_id |-> v]
    /\ UNCHANGED_pipeline

ClusterFaces(v) ==
    /\ LET r == cluster_faces(face_database, v)
       IN  /\ face_database' = r.db
           /\ face_file' = IF r.saved THEN r.db ELSE face_file
           /\ ret' = [op |-> "cluster_faces", video_id |-> v, clusters |-> r.clusters]
    /\ UNCHANGED_pipeline

\* POST /faces/tag
TagFace(face_id, person_name) ==
    /\ TagCount(face_database) < MaxTags
    /\ LET r == tag_face(face_database, face_id, person_name)
       IN  /\ face_database' = r.db
           /\ face_file' = IF r.saved THEN r.db ELSE face_file
           /\ ret' = [op |-> "tag_face", face_id |-> face_id, person_name |-> person_name,
                      success |-> r.saved]
    /\ UNCHANGED_pipeline

\* GET /faces/search
SearchByPerson(person_name) ==
    /\ ret' = [op |-> "search_by_person", person_name |-> person_name,
               appearances |-> search_by_person(face_database, person_name)]
    /\ UNCHANGED <<face_database, face_file>>
    /\ UNCHANGED_pipeline

\* GET /faces/clusters
GetClusters(v) ==
    /\ ret' = [op |-> "get_clusters_for_video", video_id |-> v,
               clusters |-> get_clusters_for_video(face_database, v)]
    /\ UNCHANGED <<face_database, face_file>>
    /\ UNCHANGED_pipeline

NextFaces ==
    \/ \E v \in Runs : AddFaces(v)
    \/ \E v \in VideoIds : ClusterFaces(v)
    \/ \E face_id \in FaceIds(face_database) \cup {NoSuchFace}, person_name \in Names :
          TagFace(face_id, person_name)
    \/ \E person_name \in Names : SearchByPerson(person_name)
    \/ \E v \in VideoIds : GetClusters(v)

SpecFaces == Init /\ [][NextFaces]_vars

\* -------------------------------------------------- the index, call by call

MaxRecords == 3
MaxLimit == 2

\* An optional video_id: None, or Some of a string; "" is not a video id.
Truthy(video_id) == video_id # None /\ video_id[1] # ""

Rankings(n) == {f \in [1..n -> 1..n] : \A i, j \in 1..n : f[i] = f[j] => i = j}

\* collection.query without the where clause.
QueryUnfiltered(coll, ranking, n_results, where) ==
    SubSeq(ranking, 1, IF n_results <= Len(ranking) THEN n_results ELSE Len(ranking))

\* collection.query(query_embeddings, n_results, where): the n_results records
\* nearest to the query among those the where clause admits, nearest first.
\* ranking[r] is the position of the r-th nearest record of the collection.
Query(coll, ranking, n_results, where) ==
    LET hits == SelectSeq(ranking, LAMBDA i :
                    where = None \/ coll[i].metadata.video_id = where[1])
    IN  SubSeq(hits, 1, IF n_results <= Len(hits) THEN n_results ELSE Len(hits))

search(coll, ranking, video_id, limit) ==
    LET where == IF Truthy(video_id) THEN Some(video_id[1]) ELSE None
        n_results == IF ~Truthy(video_id) THEN limit ELSE limit * 10
        results == Query(coll, ranking, n_results, where)
        formatted_results == [r \in 1..Len(results) |->
                                 [text |-> coll[results[r]].text,
                                  metadata |-> coll[results[r]].metadata,
                                  distance |-> r]]
    IN  SubSeq(formatted_results, 1,
               IF limit <= Len(formatted_results) THEN limit ELSE Len(formatted_results))

\* _add_to_index, of a transcript segment of video v.
IndexText(v) ==
    /\ Len(collection) < MaxRecords
    /\ LET record == TranscriptRecord(v, [text |-> <<"visit", "Paris">>,
                                          start |-> Len(collection),
                                          end |-> Len(collection) + 1])
       IN  collection' = AddToIndex(collection, v, record.text, record.metadata)
    /\ ret' = [op |-> "_add_to_index", video_id |-> v]
    /\ UNCHANGED <<pc, video, stages, failed, runLocals, face_database, face_file,
                   events_files, writes, threads>>

\* GET /search. The embedding of the query decides the ranking.
Search(video_id, limit) ==
    /\ \E ranking \in Rankings(Len(collection)) :
          ret' = [op |-> "search", video_id |-> video_id, limit |-> limit,
                  ranking |-> ranking,
                  results |-> search(collection, ranking, video_id, limit)]
    /\ UNCHANGED <<pc, video, stages, failed, runLocals, stores, threads>>

NextSearch ==
    \/ \E v \in {"v1", "v2"} : IndexText(v)
    \/ \E video_id \in {None, Some(""), Some("v0"), Some("v1"), Some("v2")},
          limit \in 1..MaxLimit : Search(video_id, limit)

\* The index is empty when the first record is added.
InitSearch == Init /\ collection = <<>>

SpecSearch == InitSearch /\ [][NextSearch]_vars

\* ----------------------------- the face database under concurrent requests

\* What a writer that flushes into a longer file leaves: its bytes, then the
\* rest of the other writer's; len is the length of the file.
Corrupt(len) == [corrupt |-> TRUE, len |-> len]

\* The length of json.dump(db, indent=2) up to a constant: what varies is the
\* number of faces, null or a label for cluster_id, null or a quoted name for
\* person_name, and the registry.
JsonLen(db) ==
    IF "corrupt" \in DOMAIN db THEN db.len
    ELSE IF "faces" \notin DOMAIN db THEN 0
    ELSE LET face_len(i) ==
                 3000 + (IF db.faces[i].cluster_id = None THEN 4 ELSE 1)
                      + (IF db.faces[i].person_name = None THEN 4 ELSE 7)
             RECURSIVE Total(_)
             Total(i) == IF i = 0 THEN 0 ELSE face_len(i) + Total(i - 1)
         IN  Total(Len(db.faces)) + 40 * TagCount(db) + 20 * Cardinality(DOMAIN db.people)

ThreadVideo(t) == IF t = "run_v1" THEN "v1" ELSE "v2"
ThreadFaces(t) == AllFaces(ThreadVideo(t), <<PersonFrame, PersonFrame>>, {})
TaggedFace == <<"v1", 0, 0>>

At(t, at) == threads[t].at = at
Move(t, at, then) == [threads EXCEPT ![t].at = at, ![t].then = then]

UNCHANGED_conc ==
    UNCHANGED <<pc, video, stages, failed, runLocals, collection, events_files, writes, ret>>

\* add_faces_to_database: extend, then _save_face_database.
ConcExtend(t) ==
    /\ t # "tag"
    /\ At(t, "extend")
    /\ face_database' = add_faces_to_database(face_database, ThreadFaces(t))
    /\ threads' = Move(t, "open", "fit")
    /\ UNCHANGED face_file
    /\ UNCHANGED_conc

\* _save_face_database: open(path, 'w') truncates the file.
SaveOpen(t) ==
    /\ At(t, "open")
    /\ face_file' = Truncated
    /\ threads' = [threads EXCEPT ![t].at = "dump"]
    /\ UNCHANGED face_database
    /\ UNCHANGED_conc

\* json.dump serializes the database as it is now into the file object's buffer.
SaveDump(t) ==
    /\ At(t, "dump")
    /\ threads' = [threads EXCEPT ![t].at = "close", ![t].buf = Some(face_database)]
    /\ UNCHANGED <<face_database, face_file>>
    /\ UNCHANGED_conc

\* Leaving the with block flushes the buffer at offset 0 of the file.
SaveClose(t) ==
    /\ At(t, "close")
    /\ face_file' = IF JsonLen(threads[t].buf[1]) >= JsonLen(face_file)
                    THEN threads[t].buf[1] ELSE Corrupt(JsonLen(face_file))
    /\ threads' = [threads EXCEPT ![t].at = threads[t].then, ![t].buf = None]
    /\ UNCHANGED face_database
    /\ UNCHANGED_conc

\* cluster_faces up to DBSCAN.fit: the faces of the video, and their labels.
ConcFit(t) ==
    /\ t # "tag"
    /\ At(t, "fit")
    /\ LET video_faces == VideoFaces(face_database, ThreadVideo(t))
       IN  threads' =
             IF Len(video_faces) < 2
             THEN Move(t, "done", "done")
             ELSE [threads EXCEPT
                      ![t].at = "assign",
                      ![t].video_faces = video_faces,
                      ![t].labels = DBSCAN([i \in 1..Len(video_faces) |->
                                               video_faces[i].encoding])]
    /\ UNCHANGED <<face_database, face_file>>
    /\ UNCHANGED_conc

\* cluster_faces' loop over the labels, writing cluster_id into the face
\* objects, then _save_face_database.
ConcAssign(t) ==
    /\ At(t, "assign")
    /\ face_database' =
          [face_database EXCEPT !.faces =
              [i \in 1..Len(face_database.faces) |->
                  Relabel(face_database.faces[i], threads[t].video_faces, threads[t].labels)]]
    /\ threads' = [threads EXCEPT ![t].at = "open", ![t].then = "done",
                                  ![t].video_faces = <<>>, ![t].labels = <<>>]
    /\ UNCHANGED face_file
    /\ UNCHANGED_conc

\* tag_face up to its _save_face_database.
ConcTag(t) ==
    /\ t = "tag"
    /\ At(t, "tag")
    /\ LET r == tag_face(face_database, TaggedFace, "Alice")
       IN  /\ face_database' = r.db
           /\ threads' = IF r.saved THEN Move(t, "open", "done") ELSE Move(t, "done", "done")
    /\ UNCHANGED face_file
    /\ UNCHANGED_conc

InitConc ==
    /\ pc = [v \in VideoIds |-> "none"]
    /\ video = [v \in VideoIds |-> NoVideo]
    /\ stages = [v \in VideoIds |-> <<>>]
    /\ failed = [v \in VideoIds |-> {}]
    /\ audio_path = [v \in VideoIds |-> ""]
    /\ frame_paths = [v \in VideoIds |-> <<>>]
    /\ features = [v \in VideoIds |-> NoFeatures]
    /\ all_faces = [v \in VideoIds |-> <<>>]
    /\ face_database = EmptyFaceDatabase
    /\ face_file = EmptyFaceDatabase
    /\ collection = <<>>
    /\ events_files = [v \in VideoIds |-> None]
    /\ writes = [v \in VideoIds |-> 0]
    /\ ret = [op |-> "none"]
    /\ threads = [t \in Threads |->
                    [Idle EXCEPT !.at = IF t = "tag" THEN "tag" ELSE "extend"]]

NextConc ==
    \E t \in Threads :
        \/ ConcExtend(t)
        \/ SaveOpen(t)
        \/ SaveDump(t)
        \/ SaveClose(t)
        \/ ConcFit(t)
        \/ ConcAssign(t)
        \/ ConcTag(t)

SpecConc == InitConc /\ [][NextConc]_vars

\* --------------------------------------- the event detector, call by call

MaxEmbeddings == 3
MaxRuns == 3
MaxScored == 2
MaxSummarized == 6

EmbeddingSeqs == UNION {[1..n -> Embeddings] : n \in 0..MaxEmbeddings}

\* rms envelopes: up to MaxRuns runs, each of a level (the peak is the highest
\* level present) and of 1, 21 or 22 hops (22 hops are the first to exceed 0.5 s).
Levels == {0, 7, 10}
RunLens == {1, 21, 22}
Envelopes ==
    {Expand(runs) : runs \in UNION {[1..n -> [level : Levels, len : RunLens]] : n \in 1..MaxRuns}}

\* The arguments of score_events: events of each source, the k-th marked k.
Timestamps == {0, SampleRate}
AudioTypes == {"audio_spike", "silence"}
SceneInput(timestamp, k) ==
    [timestamp |-> timestamp, type |-> "scene_change", score |-> 50 * SampleRate,
     description |-> <<"scene", k>>]
AudioInput(type, timestamp, k) ==
    [timestamp |-> timestamp, type |-> type, score |-> 80 * SampleRate,
     description |-> <<"audio", k>>]
EntityInput(timestamp, k) == [text |-> <<"entity", k>>, timestamp |-> timestamp]

\* The events given to generate_summary: timestamp-sorted, of these kinds.
SummaryKinds ==
    {[type |-> "scene_change", importance |-> 2 * ScoreOne],
     [type |-> "audio_spike", importance |-> 2 * ScoreOne],
     [type |-> "silence", importance |-> ScoreOne],
     [type |-> "entity_mention", importance |-> 9 * ScoreOne]}
Durations == {0, 60}

\* The detector keeps no state between calls: a behaviour is one call.
UNCHANGED_detector ==
    /\ ret.op = "none"
    /\ UNCHANGED <<pc, video, stages, failed, runLocals, stores, threads>>

DetectSceneChanges(frame_embeddings) ==
    /\ UNCHANGED_detector
    /\ LET timestamps == [i \in 1..Len(frame_embeddings) |-> Seconds(i - 1)]
       IN  ret' = [op |-> "detect_scene_changes",
                   frame_embeddings |-> frame_embeddings,
                   timestamps |-> timestamps,
                   events |-> detect_scene_changes(frame_embeddings, timestamps)]

DetectAudioEvents(rms) ==
    /\ UNCHANGED_detector
    /\ ret' = [op |-> "detect_audio_events", rms |-> rms,
               events |-> detect_audio_events(Some(rms))]

ScoreEvents(scenes, audio, entities) ==
    /\ UNCHANGED_detector
    /\ LET scene_changes == [k \in 1..Len(scenes) |-> SceneInput(scenes[k], k)]
           audio_events == [k \in 1..Len(audio) |-> AudioInput(audio[k][1], audio[k][2], k)]
           mentions == IF entities = None THEN None
                       ELSE Some([k \in 1..Len(entities[1]) |-> EntityInput(entities[1][k], k)])
       IN  ret' = [op |-> "score_events",
                   scene_changes |-> scene_changes,
                   audio_events |-> audio_events,
                   entities |-> mentions,
                   events |-> score_events(scene_changes, audio_events, mentions)]

GenerateSummary(kinds, video_duration) ==
    /\ UNCHANGED_detector
    /\ LET events == [i \in 1..Len(kinds) |->
                        [timestamp |-> Seconds(i - 1),
                         type |-> kinds[i].type,
                         score |-> ScoreOne,
                         description |-> <<"event", i>>,
                         importance |-> kinds[i].importance]]
       IN  ret' = [op |-> "generate_summary", events |-> events,
                   video_duration |-> video_duration,
                   summary |-> generate_summary(events, video_duration)]

NextEvents ==
    \/ \E frame_embeddings \in EmbeddingSeqs : DetectSceneChanges(frame_embeddings)
    \/ \E rms \in Envelopes : DetectAudioEvents(rms)
    \/ \E n1, n2 \in 0..MaxScored :
          \E scenes \in [1..n1 -> Timestamps], audio \in [1..n2 -> AudioTypes \X Timestamps] :
             \E entities \in {None} \cup {Some(e) : e \in UNION {[1..n -> Timestamps] :
                                                            n \in 0..MaxScored}} :
                ScoreEvents(scenes, audio, entities)
    \/ \E n \in 0..MaxSummarized : \E kinds \in [1..n -> SummaryKinds] :
          \E video_duration \in Durations : GenerateSummary(kinds, video_duration)

SpecEvents == InitSearch /\ [][NextEvents]_vars

\* ------------------------------------- the events file, read while runs go on

\* json.load of the events file: None when the document is cut short
\* (JSONDecodeError).
LoadEvents(file) == IF file = Truncated THEN None ELSE Some(file)

\* GET /events/{video_id}
GetEvents(v) ==
    /\ ret' = [op |-> "get_events", video_id |-> v,
               response |->
                   IF events_files[v] = None THEN [status |-> 404]
                   ELSE LET data == LoadEvents(events_files[v][1])
                        IN  IF data = None THEN [status |-> 500]
                            ELSE [status |-> 200, body |-> data[1]]]
    /\ UNCHANGED <<pc, video, stages, failed, runLocals, stores, threads>>

\* GET /summary/{video_id}
GetSummary(v) ==
    /\ ret' = [op |-> "get_summary", video_id |-> v,
               response |->
                   IF events_files[v] = None THEN [status |-> 404]
                   ELSE LET data == LoadEvents(events_files[v][1])
                        IN  IF data = None THEN [status |-> 500]
                            ELSE [status |-> 200,
                                  body |-> [video_id |-> v,
                                            summary |-> data[1].summary,
                                            top_moments |-> data[1].summary.top_moments]]]
    /\ UNCHANGED <<pc, video, stages, failed, runLocals, stores, threads>>

NextReads ==
    \/ Next
    \/ \E v \in {"v0", "v1"} : GetEvents(v) \/ GetSummary(v)

SpecReads == Init /\ [][NextReads]_vars

\* -------------------------------------------- two uploads, processed at once

\* Starlette runs the background task of each upload on a thread of its pool:
\* the tasks of two uploads run side by side on the one face_service and the
\* one indexer. The uploaded files are short: one frame, of one person, and
\* no audio stream.
ConcurrentRuns == {"v1", "v2"}

ShortVideos == {[audio |-> None, frames |-> <<PersonFrame>>]}

UploadShort(v) ==
    /\ pc[v] = "none"
    /\ \E file \in ShortVideos : video' = [video EXCEPT ![v] = file]
    /\ Goto(v, "extract_audio")
    /\ ret' = [op |-> "upload_video", video_id |-> v]
    /\ UNCHANGED <<stages, failed, runLocals, stores, threads>>

NextRuns ==
    \E v \in ConcurrentRuns :
        \/ UploadShort(v)
        \/ RunNext(v)

SpecRuns == InitSearch /\ [][NextRuns]_vars

\* Every task the pool has started runs until it returns or raises.
FairSpecRuns == SpecRuns /\ \A v \in ConcurrentRuns : WF_vars(RunNext(v))

\* =================================================================== claims

Last(s) == s[Len(s)]
IsPrefix(s, t) == Len(s) <= Len(t) /\ SubSeq(t, 1, Len(s)) = s
StageSet == Range(StageOrder)
StartedStages(v) == Range(stages[v])

FatalStages == {"extract_audio", "extract_frames", "extract_features"}
RecoverableStages == {"detect_faces", "store_faces", "enrich_entities", "detect_events"}

\* Nothing of video v is in the face database, the index or the events directory.
NothingStored(v) ==
    /\ \A i \in 1..Len(face_database.faces) : face_database.faces[i].video_id # v
    /\ \A i \in 1..Len(face_file.faces) : face_file.faces[i].video_id # v
    /\ \A i \in 1..Len(collection) : collection[i].metadata.video_id # v
    /\ events_files[v] = None

\* C1: within one run the stages start in the order of StageOrder (store_faces
\* is left out when no face was detected), each at most once, and a stage
\* starts only when every stage started before it has ended: the started
\* stages all precede the one the run is about to start.
C1_StagesInFixedOrderOnce ==
    \A v \in VideoIds :
        /\ \/ IsPrefix(stages[v], StageOrder)
           \/ IsPrefix(stages[v], SelectSeq(StageOrder, LAMBDA s : s # "store_faces"))
        /\ \A s \in StageSet : Count(stages[v], s) <= 1
        /\ pc[v] \in StageSet => \A s \in StartedStages(v) : Pos(s) < Pos(pc[v])

\* C1 witness: a run went through every stage, an error occurred in one of
\* them, and it is done.
C1_Witness ==
    /\ pc["v1"] = "done"
    /\ stages["v1"] = StageOrder
    /\ "detect_events" \in failed["v1"]

\* C2 as stated: an error in audio, frame or feature extraction aborts the
\* run, no later stage starts and nothing of the video is stored.
C2_AnyExtractionFailureAborts ==
    \A v \in VideoIds : \A s \in failed[v] \cap FatalStages :
        /\ pc[v] = "aborted"
        /\ \A later \in StartedStages(v) : Pos(later) <= Pos(s)
        /\ NothingStored(v)

\* C2 amended: an error of frame or feature extraction always aborts the run,
\* and so does an error of audio extraction that extract_audio does not catch;
\* after such an abort no later stage has started and nothing of the video is
\* stored. ffmpeg's non-zero exit is caught: the run goes on with audio_path "".
C2_UncaughtExtractionFailureAborts ==
    \A v \in VideoIds :
        /\ failed[v] \cap {"extract_frames", "extract_features"} # {} => pc[v] = "aborted"
        /\ (pc[v] = "aborted" /\ Last(stages[v]) \in FatalStages) =>
              /\ Last(stages[v]) \in failed[v]
              /\ StartedStages(v) \subseteq FatalStages
              /\ NothingStored(v)
        /\ ("extract_audio" \in failed[v] /\ pc[v] \in StageSet) => audio_path[v] = ""

\* C2 witness: ffmpeg failed and the run went on; feature extraction then
\* raised and the run is aborted, while the stores hold the earlier video.
C2_Witness ==
    /\ pc["v1"] = "aborted"
    /\ failed["v1"] = {"extract_audio", "extract_features"}
    /\ Last(stages["v1"]) = "extract_features"
    /\ collection # <<>>

SummaryOf(events) == generate_summary(events, 0)

\* C5 as stated: the events file of a video exists exactly when step 6 of its
\* run ended without error, it was written at most once, and it holds the
\* video_id, the number of frames, the events and their summary.
C5_ArtifactIffEventsDetected ==
    \A v \in VideoIds :
        /\ events_files[v] # None <=>
              ("detect_events" \in StartedStages(v) /\ "detect_events" \notin failed[v])
        /\ writes[v] <= 1
        /\ events_files[v] # None =>
              /\ events_files[v][1].video_id = v
              /\ events_files[v][1].duration = Len(video[v].frames)
              /\ events_files[v][1].summary = SummaryOf(events_files[v][1].events)

SummaryFields == {"top_moments", "event_count", "scene_count", "audio_spike_count",
                  "highlight_description", "events_by_type"}

\* C6 as stated: the summary of every persisted document has top_moments,
\* event_count, scene_count, audio_spike_count, highlight_description and the
\* per-type counts.
C6_SummaryHasEveryField ==
    \A v \in VideoIds :
        (events_files[v] # None /\ "summary" \in DOMAIN events_files[v][1]) =>
            SummaryFields \subseteq DOMAIN events_files[v][1].summary

\* C4 as stated: once every thread is done, each face a run appended is in
\* the database with the cluster_id its run wrote, the tagged face has its
\* name, and the saved file holds every face as the database in memory does.
C4_NoLostUpdate ==
    (\A t \in Threads : At(t, "done")) =>
        /\ \A t \in Threads \ {"tag"} : \A k \in 1..Len(ThreadFaces(t)) :
              \E i \in 1..Len(face_database.faces) :
                  /\ face_database.faces[i].face_id = ThreadFaces(t)[k].face_id
                  /\ face_database.faces[i].cluster_id # None
        /\ \A i \in 1..Len(face_database.faces) :
              (face_database.faces[i].face_id = TaggedFace /\ TagCount(face_database) > 0)
                  => face_database.faces[i].person_name = Some("Alice")
        /\ "faces" \in DOMAIN face_file
        /\ \A i \in 1..Len(face_database.faces) :
              \E j \in 1..Len(face_file.faces) : face_file.faces[j] = face_database.faces[i]

\* C7: a search with a video id returns at most limit records, each of that
\* video, whatever the ranking of the records of other videos; a search
\* without one returns at most limit records too.
C7_SearchFiltersAndLimits ==
    ret.op = "search" =>
        /\ Len(ret.results) <= ret.limit
        /\ Truthy(ret.video_id) =>
              \A r \in 1..Len(ret.results) :
                  ret.results[r].metadata.video_id = ret.video_id[1]

\* C7 witness: the record nearest to the query is of another video, the video
\* has more records than the limit, and the search returned one of its own.
C7_Witness ==
    /\ ret.op = "search"
    /\ ret.video_id = Some("v1")
    /\ ret.limit = 1
    /\ Len(ret.results) = 1
    /\ Len(collection) = 3
    /\ collection[ret.ranking[1]].metadata.video_id = "v2"
    /\ Cardinality({i \in 1..3 : collection[i].metadata.video_id = "v1"}) = 2

\* The faces a tag_face(face_id, ...) names in db: the target and the faces
\* with the target's cluster_id, when it has one.
Named(db, face_id) ==
    {i \in 1..Len(db.faces) :
        \E t \in 1..Len(db.faces) :
            /\ db.faces[t].face_id = face_id
            /\ \/ i = t
               \/ /\ db.faces[t].cluster_id # None
                  /\ db.faces[i].cluster_id = db.faces[t].cluster_id}

\* C8: a tag_face call that finds its face sets person_name on the target and
\* on every face with the target's cluster_id, when it has one, and changes
\* no other face and no other field.
C8_TagNamesTargetAndCluster ==
    [][(ret'.op = "tag_face" /\ ret'.success) =>
          /\ Len(face_database'.faces) = Len(face_database.faces)
          /\ \A i \in 1..Len(face_database.faces) :
                face_database'.faces[i] =
                    IF i \in Named(face_database, ret'.face_id)
                    THEN [face_database.faces[i] EXCEPT !.person_name = Some(ret'.person_name)]
                    ELSE face_database.faces[i]]_vars

\* C8 witness: the call named the target and another face of its cluster, and
\* a face outside the cluster keeps the other name.
C8_Witness ==
    /\ ret.op = "tag_face"
    /\ ret.success
    /\ \E i, j, k \in 1..Len(face_database.faces) :
          /\ face_database.faces[i].face_id = ret.face_id
          /\ face_database.faces[i].cluster_id # None
          /\ j # i
          /\ face_database.faces[j].cluster_id = face_database.faces[i].cluster_id
          /\ face_database.faces[j].person_name = Some(ret.person_name)
          /\ face_database.faces[k].cluster_id = None
          /\ face_database.faces[k].person_name \notin {None, Some(ret.person_name)}

\* C9: after tag_face(f, n) on a face with a cluster_id, search_by_person(n)
\* has exactly one entry (video_id, timestamp, face_id) for every face of that
\* cluster, and every entry is of a face named n.
C9_TaggedClusterIsFound ==
    (ret.op = "tag_face" /\ ret.success) =>
        LET faces == face_database.faces
            found == search_by_person(face_database, ret.person_name)
        IN  \A t \in 1..Len(faces) :
                (faces[t].face_id = ret.face_id /\ faces[t].cluster_id # None) =>
                    /\ \A i \in 1..Len(faces) :
                          faces[i].cluster_id = faces[t].cluster_id =>
                              Cardinality({k \in 1..Len(found) :
                                  found[k] = [video_id |-> faces[i].video_id,
                                              timestamp |-> faces[i].timestamp,
                                              face_id |-> faces[i].face_id]}) = 1
                    /\ \A k \in 1..Len(found) : \A i \in 1..Len(faces) :
                          faces[i].face_id = found[k].face_id =>
                              faces[i].person_name = Some(ret.person_name)

\* C9 witness: the tagged face is in a cluster of two, the search finds the
\* two, and a face of another name is not among them.
C9_Witness ==
    /\ ret.op = "tag_face"
    /\ ret.success
    /\ Len(search_by_person(face_database, ret.person_name)) = 2
    /\ \E t, k \in 1..Len(face_database.faces) :
          /\ face_database.faces[t].face_id = ret.face_id
          /\ face_database.faces[t].cluster_id # None
          /\ face_database.faces[k].person_name \notin {None, Some(ret.person_name)}

\* C10: clustering a video again, with no face added in between, changes
\* nothing in the database and returns the same clusters: in every state for
\* two calls in a row, and after every call made for one more.
C10_ClusterIsIdempotent ==
    /\ \A v \in VideoIds :
          LET once == cluster_faces(face_database, v)
              twice == cluster_faces(once.db, v)
          IN  /\ twice.db = once.db
              /\ twice.clusters = once.clusters
    /\ ret.op = "cluster_faces" =>
          LET again == cluster_faces(face_database, ret.video_id)
          IN  /\ again.db = face_database
              /\ again.clusters = ret.clusters

\* C10 witness: the call put two faces of the video in a cluster and left a
\* third as noise, after a face of the video was tagged.
C10_Witness ==
    /\ ret.op = "cluster_faces"
    /\ ret.video_id = "v1"
    /\ DOMAIN ret.clusters = {0}
    /\ Len(ret.clusters[0]) = 2
    /\ \E i \in 1..Len(face_database.faces) :
          /\ face_database.faces[i].video_id = "v1"
          /\ face_database.faces[i].cluster_id = None
          /\ face_database.faces[i].person_name # None

\* C11: detect_scene_changes on N embeddings returns at most N - 1 events
\* (none when N < 2), in increasing frame order, at most one per pair, each
\* stamped with the later frame of a pair whose similarity is below the limit.
C11_SceneChangesBounded ==
    ret.op = "detect_scene_changes" =>
        LET N == Len(ret.frame_embeddings)
            events == ret.events
        IN  /\ Len(events) <= (IF N < 2 THEN 0 ELSE N - 1)
            /\ \A k \in 1..Len(events) :
                  \E i \in 2..N :
                      /\ events[k].timestamp = ret.timestamps[i]
                      /\ Similarity(ret.frame_embeddings[i - 1], ret.frame_embeddings[i])
                            < 100 - scene_change_threshold
            /\ \A k \in 1..(Len(events) - 1) : events[k].timestamp < events[k + 1].timestamp

\* C11 witness: of three frames only the last differs; the one event is
\* stamped with the third frame.
C11_Witness ==
    /\ ret.op = "detect_scene_changes"
    /\ Len(ret.frame_embeddings) = 3
    /\ Len(ret.events) = 1
    /\ ret.events[1].timestamp = ret.timestamps[3]

\* The first samples (from 1) of the maximal runs of v above the spike threshold.
SpikeRunStarts(v) ==
    {i \in 1..Len(v) : v[i] > audio_spike_threshold
                       /\ (i = 1 \/ v[i - 1] <= audio_spike_threshold)}

\* C12 as stated: the audio_spike events are exactly one for each maximal run
\* of samples above audio_spike_threshold, at the run's first sample.
C12_OneSpikePerRun ==
    ret.op = "detect_audio_events" =>
        LET v == Normalize(ret.rms)
            spikes == SelectSeq(ret.events, LAMBDA e : e.type = "audio_spike")
        IN  /\ Len(spikes) = Cardinality(SpikeRunStarts(v))
            /\ {spikes[k].timestamp : k \in 1..Len(spikes)}
                  = {FramesToTime(i - 1) : i \in SpikeRunStarts(v)}

\* The maximal runs of v below the silence threshold, as <<first, last>>.
SilenceRuns(v) ==
    {r \in (1..Len(v)) \X (1..Len(v)) :
        /\ r[1] <= r[2]
        /\ \A i \in r[1]..r[2] : v[i] < silence_threshold
        /\ (r[1] = 1 \/ v[r[1] - 1] >= silence_threshold)
        /\ (r[2] = Len(v) \/ v[r[2] + 1] >= silence_threshold)}

RunDuration(r) == FramesToTime(r[2] - r[1] + 1)

\* C13 as stated: the silence events are exactly one for each maximal run
\* below silence_threshold that lasts more than 0.5 s, wherever it lies, at
\* the run's start and with the run's duration as score.
C13_SilenceIffLongRun ==
    ret.op = "detect_audio_events" =>
        LET v == Normalize(ret.rms)
            silences == SelectSeq(ret.events, LAMBDA e : e.type = "silence")
            long == {r \in SilenceRuns(v) : 2 * RunDuration(r) > SampleRate}
        IN  /\ Len(silences) = Cardinality(long)
            /\ {<<silences[k].timestamp, silences[k].score>> : k \in 1..Len(silences)}
                  = {<<FramesToTime(r[1] - 1), RunDuration(r) * 100>> : r \in long}

\* C14: generate_summary of an empty list has no top moment, event_count 0
\* and one fixed description, the same for every video_duration.
C14_EmptySummaryIsFixed ==
    /\ \A d \in Durations : generate_summary(<<>>, d) = generate_summary(<<>>, 0)
    /\ (ret.op = "generate_summary" /\ ret.events = <<>>) =>
          /\ ret.summary.top_moments = <<>>
          /\ ret.summary.event_count = 0
          /\ ret.summary.highlight_description = <<"No significant events detected">>

\* C14 witness: the summary of no events of a video of 60 seconds.
C14_Witness ==
    /\ ret.op = "generate_summary"
    /\ ret.events = <<>>
    /\ ret.video_duration = 60
    /\ ret.summary.event_count = 0

\* The source of an event score_events returned, and its place in that source.
SourceRank(e) ==
    CASE e.type = "scene_change" -> 1
      [] e.type = "entity_mention" -> 3
      [] OTHER -> 2
SourcePlace(e) == IF e.type = "entity_mention" THEN e.description[2][2] ELSE e.description[2]

\* C16: score_events returns every event of its three arguments, by ascending
\* timestamp; events of one timestamp are scene changes, then audio events,
\* then entity mentions, each source in its input order.
C16_ScoredEventsAreStablySorted ==
    ret.op = "score_events" =>
        LET out == ret.events
            mentions == IF ret.entities = None THEN <<>> ELSE ret.entities[1]
        IN  /\ Len(out) = Len(ret.scene_changes) + Len(ret.audio_events) + Len(mentions)
            /\ \A k \in 1..Len(ret.scene_changes) :
                  \E i \in 1..Len(out) : out[i] = WithImportance(ret.scene_changes[k], 12)
            /\ \A k \in 1..Len(ret.audio_events) :
                  \E i \in 1..Len(out) :
                      /\ out[i].description = ret.audio_events[k].description
                      /\ out[i].timestamp = ret.audio_events[k].timestamp
                      /\ out[i].type = ret.audio_events[k].type
            /\ \A k \in 1..Len(mentions) :
                  \E i \in 1..Len(out) : out[i] = EntityMention(mentions[k])
            /\ \A i, j \in 1..Len(out) :
                  i < j =>
                      \/ out[i].timestamp < out[j].timestamp
                      \/ /\ out[i].timestamp = out[j].timestamp
                         /\ \/ SourceRank(out[i]) < SourceRank(out[j])
                            \/ /\ SourceRank(out[i]) = SourceRank(out[j])
                               /\ SourcePlace(out[i]) < SourcePlace(out[j])

\* C16 witness: the scene changes are given latest first, and a scene
\* change, two audio events and an entity mention share a timestamp.
C16_Witness ==
    /\ ret.op = "score_events"
    /\ Len(ret.scene_changes) = 2
    /\ ret.scene_changes[1].timestamp > ret.scene_changes[2].timestamp
    /\ Len(ret.events) = 6
    /\ Cardinality({i \in 1..6 : ret.events[i].timestamp = 0}) = 4
    /\ ret.events[1].type = "scene_change"
    /\ ret.events[2].type = "silence"
    /\ ret.events[3].type = "audio_spike"
    /\ ret.events[4].type = "entity_mention"

\* Event i of events goes before event j in the top moments.
GoesBefore(events, i, j) ==
    \/ events[i].importance > events[j].importance
    \/ events[i].importance = events[j].importance /\ i < j

\* C17: top_moments of a non-empty list has min(5, number of events) entries;
\* the k-th is the timestamp of the event that exactly k - 1 events go before,
\* by descending importance and, of equal importance, by place in the list.
C17_TopMomentsAreTheFiveBest ==
    (ret.op = "generate_summary" /\ ret.events # <<>>) =>
        LET events == ret.events
            top_moments == ret.summary.top_moments
        IN  /\ Len(top_moments) = Min(5, Len(events))
            /\ \A k \in 1..Len(top_moments) :
                  \E i \in 1..Len(events) :
                      /\ Cardinality({j \in 1..Len(events) : GoesBefore(events, j, i)}) = k - 1
                      /\ top_moments[k] = events[i].timestamp

\* C17 witness: of six events the first and the last are the least important
\* and equally so; the top moments are the second to the fifth, then the first.
C17_Witness ==
    /\ ret.op = "generate_summary"
    /\ Len(ret.events) = 6
    /\ ret.events[1].importance = ret.events[6].importance
    /\ \A i \in 2..5 : ret.events[i].importance > ret.events[1].importance
    /\ ret.summary.top_moments = <<Seconds(1), Seconds(2), Seconds(3), Seconds(4), Seconds(0)>>

\* No events document was persisted for v: no run of it got to step 6, or
\* step 6 ended in an error.
NoArtifact(v) == "detect_events" \notin StartedStages(v) \/ "detect_events" \in failed[v]

\* C15 as stated: a read of the events or the summary of a video answers
\* NotFound when no artifact was persisted for it and the persisted content
\* otherwise, and changes no store.
C15_ReadsAnswerNotFoundOrContent ==
    [][(ret' # ret /\ ret'.op \in {"get_events", "get_summary"}) =>
          LET v == ret'.video_id
          IN  /\ UNCHANGED stores
              /\ IF NoArtifact(v)
                 THEN ret'.response.status = 404
                 ELSE /\ ret'.response.status = 200
                      /\ ret'.op = "get_events" => ret'.response.body = events_files[v][1]
                      /\ ret'.op = "get_summary" =>
                            ret'.response.body.summary = events_files[v][1].summary]_vars

\* Face i of faces has no other face within eps: with min_samples = 2 these
\* are the points DBSCAN labels noise.
Isolated(faces, i) ==
    \A j \in 1..Len(faces) : j # i => Distance(faces[i].encoding, faces[j].encoding) > eps

\* C18: after cluster_faces(video_id) on two faces or more, a noise face of
\* the video is in no returned cluster and has no cluster_id, and every other
\* face of it is once in exactly one returned cluster, whose key is the
\* face's cluster_id; on fewer than two faces the mapping is empty and the
\* database is left as it was.
C18_ClustersMatchStoredIds ==
    /\ [](ret.op = "cluster_faces" =>
            LET faces == VideoFaces(face_database, ret.video_id)
                Holds(key, i) == {k \in 1..Len(ret.clusters[key]) :
                                     ret.clusters[key][k] = faces[i].face_id}
            IN  IF Len(faces) < 2 THEN ret.clusters = <<>>
                ELSE \A i \in 1..Len(faces) :
                        IF Isolated(faces, i)
                        THEN /\ faces[i].cluster_id = None
                             /\ \A key \in DOMAIN ret.clusters : Holds(key, i) = {}
                        ELSE /\ faces[i].cluster_id # None
                             /\ faces[i].cluster_id[1] \in DOMAIN ret.clusters
                             /\ \A key \in DOMAIN ret.clusters :
                                   Cardinality(Holds(key, i))
                                      = IF key = faces[i].cluster_id[1] THEN 1 ELSE 0)
    /\ [][(ret'.op = "cluster_faces"
           /\ Len(VideoFaces(face_database, ret'.video_id)) < 2)
             => face_database' = face_database]_vars

\* C18 witness: the call clustered three untagged faces of the video, two
\* into cluster 0 and the third noise.
C18_Witness ==
    /\ ret.op = "cluster_faces"
    /\ ret.video_id = "v1"
    /\ Len(VideoFaces(face_database, "v1")) = 3
    /\ DOMAIN ret.clusters = {0}
    /\ Isolated(VideoFaces(face_database, "v1"), 3)
    /\ \A i \in 1..Len(face_database.faces) : face_database.faces[i].person_name = None

\* C19: no two faces of the database share a face_id, and a face gets a
\* cluster_id only in a cluster_faces call for its video made when the face
\* is already in the database.
C19_FaceIdsUniqueClusterIdsFromClustering ==
    /\ [](\A i, j \in 1..Len(face_database.faces) :
            face_database.faces[i].face_id = face_database.faces[j].face_id => i = j)
    /\ [][\A i \in 1..Len(face_database'.faces) :
            (/\ face_database'.faces[i].cluster_id # None
             /\ (i > Len(face_database.faces) \/ face_database.faces[i].cluster_id = None))
               => /\ i <= Len(face_database.faces)
                  /\ face_database'.faces[i].face_id = face_database.faces[i].face_id
                  /\ ret'.op = "cluster_faces"
                  /\ ret'.video_id = face_database'.faces[i].video_id]_vars

\* C19 witness: five faces of two videos, all of distinct face_id, those of
\* the second clustered by the call just made.
C19_Witness ==
    /\ ret.op = "cluster_faces"
    /\ ret.video_id = "v1"
    /\ Len(face_database.faces) = 5
    /\ Cardinality(FaceIds(face_database)) = 5
    /\ \A i \in 1..5 : face_database.faces[i].cluster_id # None

EntityRecordsOf(v) == SelectSeq(collection, LAMBDA r :
                         r.metadata.video_id = v /\ r.metadata.type = "entity")

\* C20: whichever lookups answer, enrich_text returns every extracted entity,
\* those without an answer as extracted; a run whose step 5 ended without
\* error has indexed a record for every entity of its texts; and the run is
\* never aborted in step 5.
C20_LookupFailureKeepsTheEntity ==
    /\ \A text \in {<<"visit", "Paris">>, <<"Paris">>, <<"Paris", "Paris">>, <<"visit">>} :
          \A up \in SUBSET (1..Len(extract_entities(text))) :
             LET entities == extract_entities(text)
                 enriched == enrich_text(text, up)
             IN  /\ Len(enriched.entities) = Len(entities)
                 /\ enriched.entity_count = Len(entities)
                 /\ \A k \in 1..Len(entities) :
                       /\ enriched.entities[k].text = entities[k].text
                       /\ k \notin up => enriched.entities[k] = entities[k]
    /\ \A v \in VideoIds :
          /\ (pc[v] \in {"detect_events", "complete"} /\ "enrich_entities" \notin failed[v]) =>
                Len(EntityRecordsOf(v)) = Len(AllEntities(EnrichSources(features[v]), v, {}, 0))
          /\ pc[v] = "aborted" => Last(stages[v]) # "enrich_entities"

\* C20 witness: of the two entities of the run one lookup answered and one
\* did not; both are indexed, step 5 ended without error and the run is done.
C20_Witness ==
    /\ pc["v1"] = "done"
    /\ "enrich_entities" \notin failed["v1"]
    /\ Len(EntityRecordsOf("v1")) = 2
    /\ EntityRecordsOf("v1")[1].metadata.wikidata_id # <<>>
    /\ EntityRecordsOf("v1")[2].metadata.wikidata_id = <<>>

\* The list of a name in the registry, empty for a name it does not hold.
Listed(db, person_name) ==
    IF person_name \in DOMAIN db.people THEN db.people[person_name] ELSE <<>>

\* C21: a tag_face call that finds its face appends face_id once to the list
\* of its name in the registry, whether or not the list holds it already, and
\* leaves the lists of the other names alone: k calls with one face and one
\* name leave k occurrences.
C21_TagAppendsWithoutDedup ==
    [][(ret'.op = "tag_face" /\ ret'.success) =>
          /\ Listed(face_database', ret'.person_name)
                = Append(Listed(face_database, ret'.person_name), ret'.face_id)
          /\ \A n \in Names \ {ret'.person_name} :
                Listed(face_database', n) = Listed(face_database, n)]_vars

\* C21 witness: the face was tagged twice with the name, and the list of the
\* name holds it twice.
C21_Witness ==
    /\ ret.op = "tag_face"
    /\ ret.success
    /\ Listed(face_database, ret.person_name) = <<ret.face_id, ret.face_id>>

Running(v) == pc[v] \notin {"none", "done", "aborted"}

\* The stages process_video_task calls outside any try: an error in one of
\* them leaves the task.
UncaughtStages == FatalStages \cup {"index_features"}

C23_UnclusteredUnderNoiseId ==
    ret.op = "get_clusters_for_video" =>
        LET faces == VideoFaces(face_database, ret.video_id)
            Holds(key, i) == {k \in 1..Len(ret.clusters[key]) :
                                 ret.clusters[key][k].face_id = faces[i].face_id}
        IN  \A i \in 1..Len(faces) :
               /\ \E key \in DOMAIN ret.clusters :
                     /\ Cardinality(Holds(key, i)) = 1
                     /\ \A other \in DOMAIN ret.clusters \ {key} : Holds(other, i) = {}
               /\ faces[i].cluster_id = None =>
                     /\ Some(-1) \in DOMAIN ret.clusters
                     /\ Holds(Some(-1), i) # {}

\* C24 as stated: a tag_face call that finds its face leaves person_name of
\* every face of another video than the target's as it was.
C24_TagStaysInTheVideo ==
    [][(ret'.op = "tag_face" /\ ret'.success) =>
          \A t, i \in 1..Len(face_database.faces) :
             (/\ face_database.faces[t].face_id = ret'.face_id
              /\ face_database.faces[i].video_id # face_database.faces[t].video_id)
                => face_database'.faces[i].person_name = face_database.faces[i].person_name]_vars

\* C25: cluster_faces(V) changes nothing but the cluster_id of faces of V:
\* the faces of the other videos, every other field of the faces of V
\* (person_name among them) and the registry are as before.
C25_ClusterTouchesOnlyItsVideo ==
    [][ret'.op = "cluster_faces" =>
          /\ Len(face_database'.faces) = Len(face_database.faces)
          /\ face_database'.people = face_database.people
          /\ \A i \in 1..Len(face_database.faces) :
                IF face_database.faces[i].video_id = ret'.video_id
                THEN face_database'.faces[i] =
                        [face_database.faces[i] EXCEPT
                            !.cluster_id = face_database'.faces[i].cluster_id]
                ELSE face_database'.faces[i] = face_database.faces[i]]_vars

\* C25 witness: the call clustered faces of v1 in a database that holds the
\* clustered faces of v0 and a name on a face of v1.
C25_Witness ==
    /\ ret.op = "cluster_faces"
    /\ ret.video_id = "v1"
    /\ ret.clusters # <<>>
    /\ \E i, j \in 1..Len(face_database.faces) :
          /\ face_database.faces[i].video_id = "v0"
          /\ face_database.faces[i].cluster_id # None
          /\ face_database.faces[i].person_name = None
          /\ face_database.faces[j].video_id = "v1"
          /\ face_database.faces[j].person_name # None

\* C26: a run whose index_features fails is aborted there: no later stage
\* starts, no entity record and no events file of the video exist; the
\* failing call leaves the face database (the run's faces and their
\* cluster_ids) as it was and the index with the records added so far.
C26_IndexFailureAbortsKeepingStores ==
    /\ [](\A v \in Runs :
            "index_features" \in failed[v] =>
               /\ pc[v] = "aborted"
               /\ Last(stages[v]) = "index_features"
               /\ EntityRecordsOf(v) = <<>>
               /\ events_files[v] = None)
    /\ [][\A v \in Runs :
            ("index_features" \in failed'[v]) =>
               /\ face_database' = face_database
               /\ face_file' = face_file
               /\ IsPrefix(collection, collection')
               /\ events_files' = events_files]_vars

\* C26 witness: the run is aborted in index_features, its two faces are in
\* the database with a cluster_id and a record of the failing call is in the
\* index.
C26_Witness ==
    /\ pc["v1"] = "aborted"
    /\ "index_features" \in failed["v1"]
    /\ Len(VideoFaces(face_database, "v1")) = 2
    /\ \A i \in 1..2 : VideoFaces(face_database, "v1")[i].cluster_id # None
    /\ \E i \in 1..Len(collection) : collection[i].metadata.video_id = "v1"

\* C27: a tag_face call with a face_id that no face of the database has
\* changes nothing in the database, saves nothing and ends as a call that
\* found nothing to do, not as an error.
C27_TagOfUnknownFaceIsNoOp ==
    [][(ret'.op = "tag_face" /\ ret'.face_id \notin FaceIds(face_database)) =>
          /\ face_database' = face_database
          /\ face_file' = face_file
          /\ DOMAIN ret' = {"op", "face_id", "person_name", "success"}
          /\ ~ret'.success]_vars

\* C27 witness: the call named a face the database does not hold, after a
\* call that tagged one of its faces.
C27_Witness ==
    /\ ret.op = "tag_face"
    /\ ~ret.success
    /\ ret.face_id \notin FaceIds(face_database)
    /\ Listed(face_database, ret.person_name) # <<>>
    /\ Len(face_database.faces) >= 2

\* The face_ids search_by_person returns for a name.
FoundIds(db, person_name) ==
    {search_by_person(db, person_name)[k].face_id :
        k \in 1..Len(search_by_person(db, person_name))}

\* C28: no face is found under two names; after a tag_face(g, B) on a face
\* with a cluster_id, search_by_person(B) finds every face of that cluster
\* and search_by_person of any other name finds none of them, whatever the
\* registry lists.
C28_LastTagOwnsTheCluster ==
    /\ \A A, B \in Names : A # B => FoundIds(face_database, A) \cap FoundIds(face_database, B) = {}
    /\ (ret.op = "tag_face" /\ ret.success) =>
          \A t \in 1..Len(face_database.faces) :
             (/\ face_database.faces[t].face_id = ret.face_id
              /\ face_database.faces[t].cluster_id # None) =>
                 LET members == {face_database.faces[i].face_id :
                                    i \in {j \in 1..Len(face_database.faces) :
                                             face_database.faces[j].cluster_id
                                                = face_database.faces[t].cluster_id}}
                 IN  /\ members \subseteq FoundIds(face_database, ret.person_name)
                     /\ \A A \in Names \ {ret.person_name} :
                           members \cap FoundIds(face_database, A) = {}

\* C28 witness: a face of a cluster was tagged Alice, then another face of
\* the cluster Bob: the registry still lists the first under Alice.
C28_Witness ==
    /\ ret.op = "tag_face"
    /\ ret.success
    /\ ret.person_name = "Bob"
    /\ Len(Listed(face_database, "Alice")) = 1
    /\ Listed(face_database, "Alice")[1] # ret.face_id
    /\ \E t, f \in 1..Len(face_database.faces) :
          /\ face_database.faces[t].face_id = ret.face_id
          /\ face_database.faces[f].face_id = Listed(face_database, "Alice")[1]
          /\ face_database.faces[t].cluster_id # None
          /\ face_database.faces[f].cluster_id = face_database.faces[t].cluster_id

\* C29: every event of a persisted events document is a scene change, an
\* audio spike or a silence, never an entity mention, also for a video whose
\* entities step 5 has indexed.
C29_NoEntityMentionIsPersisted ==
    \A v \in VideoIds :
        (events_files[v] # None /\ events_files[v] # Some(Truncated)) =>
            \A i \in 1..Len(events_files[v][1].events) :
                events_files[v][1].events[i].type \in {"scene_change", "audio_spike", "silence"}

\* C29 witness: the run has indexed two entities and persisted a document
\* with events.
C29_Witness ==
    /\ Len(EntityRecordsOf("v1")) = 2
    /\ events_files["v1"] # None
    /\ events_files["v1"] # Some(Truncated)
    /\ Len(events_files["v1"][1].events) >= 2

\* C30 as stated: for a list of events that is not empty, entity mentions
\* among them or not, event_count of the summary is the sum of the counts of
\* events_by_type, and scene_count and audio_spike_count are the counts of
\* their types there.
C30_CountsAddUp ==
    (ret.op = "generate_summary" /\ ret.events # <<>>) =>
        LET by_type == ret.summary.events_by_type
        IN  /\ ret.summary.event_count
                 = by_type.scene_change + by_type.audio_spike + by_type.silence
            /\ DOMAIN by_type = {"scene_change", "audio_spike", "silence"}
            /\ ret.summary.scene_count = by_type.scene_change
            /\ ret.summary.audio_spike_count = by_type.audio_spike

====
